---- MODULE Spec2Model ----
(***************************************************************************)
(* YouTube translation agent: the job pipeline of server.py (Submit, the   *)
(* background execution process_video, the polling and store handlers)     *)
(* and the one-shot command of agent.py, over one shared output directory. *)
(*                                                                         *)
(* Text is a sequence of one-character (or one-word) strings, None is the  *)
(* empty sequence <<>> and a value v that may be None is held as <<v>>.    *)
(***************************************************************************)
EXTENDS Integers, Sequences, FiniteSets, TLC

\* ------------------------------------------------------------------ bounds
\* Submit calls the service accepts in one behaviour.
MaxJobs == 2
\* One-shot command runs in one behaviour.
MaxRuns == 3
\* Last reading of the wall clock, in ticks of half a second.
MaxClock == 4
\* Items the buffer of a file object holds before it writes them out.
BufferItems == 4
\* Pieces in a reply of the model service to a summary request.
MaxPieces == 5

\* ------------------------------------------------------- program constants
\* Length of a video identifier: the {11} of both patterns.
TokenLen == 11

None == <<>>
Some(v) == <<v>>

\* The job identifiers uuid4()[:8] can return: any eight hex characters, of
\* which the model keeps two.
JobIds == {"0a1b2c3d", "4e5f6a7b"}

\* ------------------------------------------------------- extract_video_id
AllowedChars ==
    {"a","b","c","d","e","f","g","h","i","j","k","l","m","n","o","p","q","r",
     "s","t","u","v","w","x","y","z",
     "A","B","C","D","E","F","G","H","I","J","K","L","M","N","O","P","Q","R",
     "S","T","U","V","W","X","Y","Z",
     "0","1","2","3","4","5","6","7","8","9","_","-"}

\* The alternatives of (?:v=|/v/|youtu\.be/), in the order the pattern lists them.
UrlPrefixes ==
    << <<"v","=">>, <<"/","v","/">>, <<"y","o","u","t","u",".","b","e","/">> >>

StartsAt(s, i, p) ==
    /\ i + Len(p) - 1 <= Len(s)
    /\ \A k \in 1..Len(p) : s[i + k - 1] = p[k]

\* [a-zA-Z0-9_-]{11} matches at position i of s.
TokenAt(s, i) ==
    /\ i >= 1
    /\ i + TokenLen - 1 <= Len(s)
    /\ \A k \in 0..(TokenLen - 1) : s[i + k] \in AllowedChars

\* The first pattern matches with its prefix starting at position i.
UrlMatchAt(s, i) ==
    \E n \in 1..Len(UrlPrefixes) :
        StartsAt(s, i, UrlPrefixes[n]) /\ TokenAt(s, i + Len(UrlPrefixes[n]))

UrlPatternMatches(s) == \E i \in 1..Len(s) : UrlMatchAt(s, i)

\* re.search returns the leftmost match; group(1) is the token after the prefix.
UrlPatternGroup(s) ==
    LET i == CHOOSE j \in 1..Len(s) :
                 UrlMatchAt(s, j) /\ \A h \in 1..(j - 1) : ~UrlMatchAt(s, h)
        n == CHOOSE m \in 1..Len(UrlPrefixes) :
                 StartsAt(s, i, UrlPrefixes[m]) /\ TokenAt(s, i + Len(UrlPrefixes[m]))
        b == i + Len(UrlPrefixes[n])
    IN  SubSeq(s, b, b + TokenLen - 1)

\* ^([a-zA-Z0-9_-]{11})$ : the whole string is a token; $ also matches just
\* before one trailing newline.
BarePatternMatches(s) ==
    /\ TokenAt(s, 1)
    /\ \/ Len(s) = TokenLen
       \/ Len(s) = TokenLen + 1 /\ s[TokenLen + 1] = "\n"

\* None when neither pattern matches (the code raises ValueError).
extract_video_id(url) ==
    IF UrlPatternMatches(url) THEN Some(UrlPatternGroup(url))
    ELSE IF BarePatternMatches(url) THEN Some(SubSeq(url, 1, TokenLen))
    ELSE None

VidA == <<"d","Q","w","4","w","9","W","g","X","c","Q">>
VidB == <<"a","b","c","-","_","0","1","2","X","Y","Z">>

\* The inputs a caller submits to the service: a short URL and a string that
\* is no identifier.
Urls ==
    { <<"y","o","u","t","u",".","b","e","/">> \o VidB,
      <<"n","o","t","a","n","i","d">> }

\* --------------------------------------------------------- extract_transcript
\* Faulty variant, for contrast: the fragments run together, as "".join would.
RECURSIVE Join_NoBlank(_)
Join_NoBlank(texts) ==
    IF Len(texts) = 0 THEN <<>>
    ELSE <<texts[1]>> \o Join_NoBlank(Tail(texts))

RECURSIVE Join(_)
\* " ".join(texts)
Join(texts) ==
    IF Len(texts) = 0 THEN <<>>
    ELSE IF Len(texts) = 1 THEN <<texts[1]>>
    ELSE <<texts[1], " ">> \o Join(Tail(texts))

\* The transcript service: the first video has an English transcript, the
\* second only a Spanish one, which none of ['en', 'en-US', 'ko'] selects, so
\* the call with the language list raises for it.  Any call can also raise
\* for a reason of its own (the service refuses or cannot be reached).
PreferredFragments == <<"Hello", "world">>
DefaultFragments == <<"Hola", "mundo">>
HasPreferredTranscript(video_id) == video_id # VidB
DefaultTranscript(video_id) ==
    IF HasPreferredTranscript(video_id) THEN PreferredFragments ELSE DefaultFragments

\* What the model service returns for a translation request.
Translated(text) == <<"ko:">> \o text

\* -------------------------------------------------------------- summarize
\* A parsed JSON value as the summary stage sees it.  kind is the Python
\* type json.loads gave it; has is the set of keys of a dict.
JsonObject(has, one_liner, tags) ==
    [kind |-> "dict", has |-> has, one_liner |-> one_liner, tags |-> tags]
JsonArray == [kind |-> "list", has |-> {}, one_liner |-> <<>>, tags |-> <<>>]

SummaryFull == JsonObject({"one_liner", "tags"}, <<"Sell", "more">>, <<"sales", "growth">>)
\* An object without the key tags: the model answers what it answers.
SummaryBrief == JsonObject({"one_liner"}, <<"Sell">>, <<>>)

\* One piece of the model's reply: a fence marker, whitespace, a well-formed
\* JSON text (with the value it denotes) or text that is no JSON.
Piece(t, j) == [t |-> t, j |-> j]
FenceJson == Piece("fence_json", JsonArray)
Fence == Piece("fence", JsonArray)
Newline == Piece("ws", JsonArray)
JsonText(j) == Piece("json", j)
Prose == Piece("prose", JsonArray)

RECURSIVE LStrip(_)
LStrip(s) == IF Len(s) > 0 /\ s[1].t = "ws" THEN LStrip(Tail(s)) ELSE s
RECURSIVE RStrip(_)
RStrip(s) ==
    IF Len(s) > 0 /\ s[Len(s)].t = "ws" THEN RStrip(SubSeq(s, 1, Len(s) - 1)) ELSE s
Strip(s) == RStrip(LStrip(s))

\* The re.sub of summarize: it deletes a leading json-tagged fence with the
\* whitespace after it, and a trailing fence with the whitespace before it.
StripFences(s) ==
    LET a == IF Len(s) > 0 /\ s[1].t = "fence_json" THEN LStrip(Tail(s)) ELSE s
    IN  IF Len(a) > 0 /\ a[Len(a)].t = "fence"
        THEN RStrip(SubSeq(a, 1, Len(a) - 1)) ELSE a

\* json.loads: one JSON text, whitespace around it allowed; None stands for
\* JSONDecodeError.
json_loads(s) ==
    LET b == Strip(s)
    IN  IF Len(b) = 1 /\ b[1].t = "json" THEN Some(b[1].j) ELSE None

\* Lines 113-115 of server.py, 119-122 of agent.py.
ParseSummary(result_text) == json_loads(StripFences(Strip(result_text)))

\* What the model service can return for a summary request.
SummaryReplies ==
    { <<JsonText(SummaryFull)>>,
      <<FenceJson, Newline, JsonText(SummaryBrief), Newline, Fence>>,
      <<JsonText(JsonArray)>>,
      <<Prose, JsonText(SummaryFull)>> }

\* dict.get(key, default) on a summary that is a dict.
Get(summary, key, default) ==
    IF key \in summary.has THEN summary[key] ELSE default

\* ------------------------------------------------------- datetime.isoformat
Digits == <<"0","1","2","3","4","5","6","7","8","9">>

\* datetime.now().isoformat() for the clock reading t (ticks of half a
\* second): the seconds field on two digits and, only when the microsecond
\* field is not zero, a point and six digits.  The fields before the seconds
\* are fixed-width and the same for every reading of the model's horizon.
isoformat(t) ==
    LET sec == t \div 2
    IN  <<Digits[(sec \div 10) + 1], Digits[(sec % 10) + 1]>>
        \o (IF t % 2 = 0 THEN <<>> ELSE <<".", "5", "0", "0", "0", "0", "0">>)

\* ord(c) for the characters of a timestamp.
CodePoint(c) ==
    IF c = "." THEN 46
    ELSE 47 + (CHOOSE d \in 1..10 : Digits[d] = c)

\* a < b for Python strings: the first differing character decides, and a
\* proper prefix is smaller.
StrLess(a, b) ==
    \E i \in 1..Len(b) :
        /\ i <= Len(a) + 1
        /\ \A k \in 1..(i - 1) : a[k] = b[k]
        /\ \/ i = Len(a) + 1
           \/ CodePoint(a[i]) < CodePoint(b[i])

\* ------------------------------------------------ the Result and its JSON
Result(video_id, original, korean, summary, processed_at) ==
    [video_id |-> video_id,
     video_url |-> <<"https://www.youtube.com/watch?v=">> \o video_id,
     original_transcript |-> original,
     korean_transcript |-> korean,
     summary |-> summary,
     processed_at |-> processed_at]

\* One item of a JSON document on disk: a key with its value, or a brace.
Item(k, v) == [k |-> k, v |-> v]
\* What a read finds where a writer left a hole (a write past the end of a
\* file another writer truncated).
Hole == Item("\\0", <<>>)

EncodeSummary(summary) ==
    IF summary.kind = "dict"
    THEN <<Item("summary{", <<>>)>>
         \o (IF "one_liner" \in summary.has
             THEN <<Item("one_liner", summary.one_liner)>> ELSE <<>>)
         \o (IF "tags" \in summary.has
             THEN <<Item("tags", summary.tags)>> ELSE <<>>)
         \o <<Item("summary}", <<>>)>>
    ELSE <<Item("summary[]", <<>>)>>

\* The text json.dump(result, f, ensure_ascii=False, indent=2) writes.
json_dump(result) ==
    <<Item("{", <<>>),
      Item("video_id", result.video_id),
      Item("video_url", result.video_url),
      Item("original_transcript", result.original_transcript),
      Item("korean_transcript", result.korean_transcript)>>
    \o EncodeSummary(result.summary)
    \o <<Item("processed_at", result.processed_at), Item("}", <<>>)>>

\* The summary value that starts at item 6 of a document, with the position
\* of its last item; ok is FALSE where the items are no JSON value.
DecodeSummary(c) ==
    LET has1 == Len(c) >= 7 /\ c[7].k = "one_liner"
        p == IF has1 THEN 8 ELSE 7
        has2 == Len(c) >= p /\ c[p].k = "tags"
        q == IF has2 THEN p + 1 ELSE p
    IN  IF Len(c) >= 6 /\ c[6].k = "summary[]"
        THEN [ok |-> TRUE, last |-> 6, value |-> JsonArray]
        ELSE IF Len(c) >= q /\ c[6].k = "summary{" /\ c[q].k = "summary}"
        THEN [ok |-> TRUE, last |-> q,
              value |-> JsonObject(
                  (IF has1 THEN {"one_liner"} ELSE {}) \cup (IF has2 THEN {"tags"} ELSE {}),
                  IF has1 THEN c[7].v ELSE <<>>,
                  IF has2 THEN c[p].v ELSE <<>>)]
        ELSE [ok |-> FALSE, last |-> 0, value |-> JsonArray]

\* json.load(f) on the content c of a file: the parsed document, or None for
\* JSONDecodeError (an empty, cut, holed or over-long text).
json_load(c) ==
    LET s == DecodeSummary(c)
    IN  IF /\ Len(c) >= 8
           /\ c[1].k = "{"
           /\ c[2].k = "video_id"
           /\ c[3].k = "video_url"
           /\ c[4].k = "original_transcript"
           /\ c[5].k = "korean_transcript"
           /\ s.ok
           /\ Len(c) = s.last + 2
           /\ c[s.last + 1].k = "processed_at"
           /\ c[s.last + 2].k = "}"
        THEN Some([video_id |-> c[2].v,
                   video_url |-> c[3].v,
                   original_transcript |-> c[4].v,
                   korean_transcript |-> c[5].v,
                   summary |-> s.value,
                   processed_at |-> c[s.last + 1].v])
        ELSE None

\* The file after a write of items at offset off (items already written
\* before off), as POSIX write does it: bytes at the writer's own offset are
\* replaced, the file grows as needed and a gap is filled with holes.
WriteAt(content, off, items) ==
    LET n == IF off + Len(items) > Len(content) THEN off + Len(items) ELSE Len(content)
    IN  [i \in 1..n |->
            IF i > off /\ i <= off + Len(items) THEN items[i - off]
            ELSE IF i <= Len(content) THEN content[i]
            ELSE Hole]

\* ------------------------------------------------------------ generate_html
\* The report generate_html renders, by the values it puts in the page; None
\* when it raises: summary.get on a value that is no dict.
generate_html(video_id, korean, summary) ==
    IF summary.kind = "dict"
    THEN Some([video_id |-> video_id,
               korean |-> korean,
               title |-> Get(summary, "one_liner", <<"YouTube">>),
               tags |-> Get(summary, "tags", <<>>)])
    ELSE None

\* ------------------------------------------------------------- list_results
\* The record list_results appends for a parsed document; None when
\* data.get("summary", {}).get raises on a summary that is no dict.
Projection(data) ==
    IF data.summary.kind = "dict"
    THEN Some([video_id |-> data.video_id,
               one_liner |-> Get(data.summary, "one_liner", <<>>),
               tags |-> Get(data.summary, "tags", <<>>),
               processed_at |-> data.processed_at])
    ELSE None

\* Faulty variant, for contrast: the sort without reverse=True.
InsertDesc_Asc(sorted, x) ==
    LET n == Cardinality({i \in 1..Len(sorted) :
                             ~StrLess(x.processed_at, sorted[i].processed_at)})
    IN  SubSeq(sorted, 1, n) \o <<x>> \o SubSeq(sorted, n + 1, Len(sorted))

\* x goes after the records whose key is not smaller than its own.
InsertDesc(sorted, x) ==
    LET n == Cardinality({i \in 1..Len(sorted) :
                             ~StrLess(sorted[i].processed_at, x.processed_at)})
    IN  SubSeq(sorted, 1, n) \o <<x>> \o SubSeq(sorted, n + 1, Len(sorted))

RECURSIVE SortedDesc(_)
\* sorted(results, key=lambda x: x.get("processed_at", ""), reverse=True):
\* stable, largest key first.
SortedDesc(results) ==
    IF Len(results) = 0 THEN <<>>
    ELSE InsertDesc(SortedDesc(SubSeq(results, 1, Len(results) - 1)),
                    results[Len(results)])

\* ==================================================================== state
VARIABLES
    jobs,        \* server.py jobs: job identifier -> job record
    task,        \* the background executions of process_video, by slot
    json_files,  \* OUTPUT_DIR/<video_id>.json: video identifier -> items
    html_files,  \* OUTPUT_DIR/<video_id>.html: video identifier -> <<page>>
    api_key,     \* ANTHROPIC_API_KEY is set in the service's environment
    clock,       \* the last reading of datetime.now()
    response,    \* the response of the request the latest step handled
    returned,    \* history: the job identifiers Submit has returned
    cli          \* the one-shot command of agent.py

vars == <<jobs, task, json_files, html_files, api_key, clock, response, returned, cli>>

Slots == 1..MaxJobs
VideoIds == {VidA, VidB}

\* The progress labels (the source's are Korean sentences).
StepWaiting == "waiting"
StepTranscript == "extracting transcript"
StepTranslate == "translating"
StepSummarize == "summarizing"
StepSave == "saving"

\* The record start_translation inserts.  (The key html_path, which line 401
\* adds, is held as None until then.)
PendingRecord ==
    [status |-> "pending", video_id |-> None, step |-> StepWaiting,
     error |-> None, result |-> None, html_path |-> None]

\* One entry of the history of a run: what a stage did (a computation, a call
\* to an outside service, a write to the output directory), on what, and
\* whether it returned (TRUE) or raised (FALSE).
Event(stage, act, arg, ok) == [stage |-> stage, act |-> act, arg |-> arg, ok |-> ok]

IdleTask ==
    \* log is history: the events of the run so far.
    [pc |-> "idle", job_id |-> "", url |-> <<>>, video_id |-> None,
     original |-> <<>>, korean |-> <<>>, summary |-> None, result |-> None,
     html |-> None, off |-> 0, err |-> "", log |-> <<>>]

IdleCli ==
    \* before is history: what the file held when save_result opened it.
    [pc |-> "idle", runs |-> 0, url |-> <<>>, video_id |-> None,
     original |-> <<>>, korean |-> <<>>, summary |-> None, result |-> None,
     off |-> 0, before |-> <<>>, saved |-> FALSE, exit |-> None, log |-> <<>>]

NoResponse == [op |-> "none", arg |-> <<>>, code |-> 0, body |-> <<>>]
Response(op, arg, code, body) == [op |-> op, arg |-> arg, code |-> code, body |-> body]

\* The empty function: an empty dict, an empty directory.
Empty == [x \in {} |-> x]

Init ==
    /\ jobs = Empty
    /\ task = [e \in Slots |-> IdleTask]
    /\ json_files = Empty
    /\ html_files = Empty
    /\ api_key \in BOOLEAN
    /\ clock = 0
    /\ response = NoResponse
    /\ returned = {}
    /\ cli = IdleCli

\* datetime.now(): time has passed since the last reading (up to the
\* model's horizon).
Now == IF clock < MaxClock THEN clock + 1 ELSE MaxClock

\* The items a file object writes out next, of a text of which off items are
\* written: a full buffer, or what is left when the file is closed.
NextPiece(text, off) ==
    SubSeq(text, off + 1,
           IF off + BufferItems < Len(text) THEN off + BufferItems ELSE Len(text))

\* d[k] = v on a dict d.
Put(d, k, v) == [x \in DOMAIN d \cup {k} |-> IF x = k THEN v ELSE d[x]]

\* Faulty variant, for contrast: the write lands in every record of the registry.
SetField_All(job_id, field, v) ==
    [j \in DOMAIN jobs |-> [jobs[j] EXCEPT ![field] = v]]

\* jobs[job_id][field] = v
SetField(job_id, field, v) == [jobs EXCEPT ![job_id][field] = v]

\* ------------------------------------------------------- start_translation
\* The slot of the next background execution: slots are taken in order.
NextSlot == CHOOSE e \in Slots : task[e].pc = "idle" /\ \A d \in 1..(e - 1) : task[d].pc # "idle"

\* The registry after jobs[job_id] = {...}: the record is stored under
\* job_id whether or not the key is there already.
InsertPending(job_id) == Put(jobs, job_id, PendingRecord)

\* POST /api/translate with url; job_id is what str(uuid.uuid4())[:8] gave.
start_translation(url, job_id) ==
    /\ \E e \in Slots : task[e].pc = "idle"
    /\ jobs' = InsertPending(job_id)
    /\ task' = [task EXCEPT ![NextSlot] =
                   [IdleTask EXCEPT !.pc = "start", !.job_id = job_id, !.url = url]]
    /\ response' = Response("start_translation", url, 200, <<job_id>>)
    /\ returned' = returned \cup {job_id}
    /\ UNCHANGED <<json_files, html_files, api_key, clock, cli>>

\* ------------------------------------------------------------ process_video
\* A step of process_video that touches neither the registry nor the store.
Local(e, t) ==
    /\ task' = [task EXCEPT ![e] = t]
    /\ response' = NoResponse
    /\ UNCHANGED <<jobs, json_files, html_files, api_key, clock, returned, cli>>

\* A step that writes one field of the execution's own job record.
WriteJob(e, field, v, pc) ==
    /\ jobs' = SetField(task[e].job_id, field, v)
    /\ task' = [task EXCEPT ![e].pc = pc]
    /\ response' = NoResponse
    /\ UNCHANGED <<json_files, html_files, api_key, clock, returned, cli>>

\* Faulty variant, for contrast: a failed translation is swallowed and the run
\* goes on with an empty text.
Raised_Swallowed(e, msg) ==
    [task[e] EXCEPT !.err = msg,
                    !.pc = IF task[e].pc = "translate" THEN "step_summarize"
                           ELSE "except_status"]

\* The statement raised: control goes to the except clause with str(e).
Raised(e, msg) == [task[e] EXCEPT !.pc = "except_status", !.err = msg]

\* The log of slot e with one more event.
Logged(e, stage, act, arg, ok) == Append(task[e].log, Event(stage, act, arg, ok))

\* Line 351.
SetProcessing(e) ==
    /\ task[e].pc = "start"
    /\ WriteJob(e, "status", "processing", "getenv")

\* Lines 353-357.
CheckApiKey(e) ==
    /\ task[e].pc = "getenv"
    /\ Local(e, IF api_key THEN [task[e] EXCEPT !.pc = "extract"]
                ELSE Raised(e, "no api key"))

\* Line 360.
ExtractVideoId(e) ==
    /\ task[e].pc = "extract"
    /\ LET v == extract_video_id(task[e].url)
           log == Logged(e, "extract", "compute", "", v # None)
       IN  Local(e, IF v = None THEN [Raised(e, "invalid url") EXCEPT !.log = log]
                    ELSE [task[e] EXCEPT !.pc = "set_video_id", !.video_id = v,
                                         !.log = log])

\* Line 361.
SetVideoId(e) ==
    /\ task[e].pc = "set_video_id"
    /\ WriteJob(e, "video_id", task[e].video_id, "step_transcript")

\* Line 362.
SetStepTranscript(e) ==
    /\ task[e].pc = "step_transcript"
    /\ WriteJob(e, "step", StepTranscript, "fetch")

\* Line 59: the call with the language preferences returns or raises.
FetchPreferred(e) ==
    /\ task[e].pc = "fetch"
    /\ \E ok \in {FALSE, HasPreferredTranscript(task[e].video_id[1])} :
        LET log == Logged(e, "transcript", "call", "languages", ok)
        IN  Local(e, IF ok THEN [task[e] EXCEPT !.pc = "step_translate",
                                                !.original = Join(PreferredFragments),
                                                !.log = log]
                     ELSE [task[e] EXCEPT !.pc = "fetch_default", !.log = log])

\* Line 61: the call without language constraint returns or fails.
FetchDefault(e) ==
    /\ task[e].pc = "fetch_default"
    /\ \E ok \in BOOLEAN :
        LET log == Logged(e, "transcript", "call", "default", ok)
        IN  Local(e, IF ok THEN [task[e] EXCEPT !.pc = "step_translate",
                                                !.original =
                                                    Join(DefaultTranscript(task[e].video_id[1])),
                                                !.log = log]
                     ELSE [Raised(e, "transcript unavailable") EXCEPT !.log = log])

\* Line 366.
SetStepTranslate(e) ==
    /\ task[e].pc = "step_translate"
    /\ WriteJob(e, "step", StepTranslate, "translate")

\* Line 369: the model service returns the translation or fails.
Translate(e) ==
    /\ task[e].pc = "translate"
    /\ \E ok \in BOOLEAN :
        LET log == Logged(e, "translate", "call", "translate", ok)
        IN  Local(e, IF ok THEN [task[e] EXCEPT !.pc = "step_summarize",
                                                !.korean = Translated(task[e].original),
                                                !.log = log]
                     ELSE [Raised(e, "model service error") EXCEPT !.log = log])

\* Line 370.
SetStepSummarize(e) ==
    /\ task[e].pc = "step_summarize"
    /\ WriteJob(e, "step", StepSummarize, "summarize")

\* Line 373: the model service fails, or returns a text that summarize parses.
Summarize(e) ==
    /\ task[e].pc = "summarize"
    /\ \/ Local(e, [Raised(e, "model service error") EXCEPT
                         !.log = Logged(e, "summarize", "call", "summarize", FALSE)])
       \/ \E text \in SummaryReplies :
            LET s == ParseSummary(text)
                log == Logged(e, "summarize", "call", "summarize", s # None)
            IN  Local(e, IF s = None
                         THEN [Raised(e, "json decode error") EXCEPT !.log = log]
                         ELSE [task[e] EXCEPT !.pc = "step_save", !.summary = s,
                                              !.log = log])

\* Line 374.
SetStepSave(e) ==
    /\ task[e].pc = "step_save"
    /\ WriteJob(e, "step", StepSave, "assemble")

\* The execution has ended: its locals are gone.
Ended(e) == [IdleTask EXCEPT !.pc = "done", !.job_id = task[e].job_id]

\* Lines 377-386: the Result, stamped with a reading of the clock.
AssembleResult(e) ==
    /\ task[e].pc = "assemble"
    /\ LET t == Now IN
        /\ clock' = t
        /\ task' = [task EXCEPT ![e].pc = "open_json",
                                ![e].result =
                                    Some(Result(task[e].video_id[1], task[e].original,
                                                task[e].korean, task[e].summary[1],
                                                isoformat(t)))]
    /\ response' = NoResponse
    /\ UNCHANGED <<jobs, json_files, html_files, api_key, returned, cli>>

\* Faulty variant, for contrast: the file is opened without being cut.
OpenForWriting_Keep(files, name) ==
    IF name \in DOMAIN files THEN files ELSE Put(files, name, <<>>)

\* open(path, 'w'): the file is created, or cut to nothing.
OpenForWriting(files, name) == Put(files, name, <<>>)

\* Line 390.
OpenJson(e) ==
    /\ task[e].pc = "open_json"
    /\ json_files' = OpenForWriting(json_files, task[e].video_id[1])
    /\ task' = [task EXCEPT ![e].pc = "dump", ![e].off = 0,
                            ![e].log = Logged(e, "persist", "write", "json", TRUE)]
    /\ response' = NoResponse
    /\ UNCHANGED <<jobs, html_files, api_key, clock, returned, cli>>

\* Line 391: json.dump hands the text to the file object, which writes it
\* out a buffer at a time, the last piece when the with block closes it.
DumpJson(e) ==
    /\ task[e].pc = "dump"
    /\ LET text == json_dump(task[e].result[1])
           name == task[e].video_id[1]
           n == Len(NextPiece(text, task[e].off))
       IN   /\ json_files' = [json_files EXCEPT ![name] =
                                 WriteAt(@, task[e].off, NextPiece(text, task[e].off))]
            /\ task' = [task EXCEPT ![e].off = @ + n,
                                    ![e].pc = IF task[e].off + n = Len(text)
                                              THEN "generate_html" ELSE "dump"]
    /\ response' = NoResponse
    /\ UNCHANGED <<jobs, html_files, api_key, clock, returned, cli>>

\* Line 394.
GenerateHtml(e) ==
    /\ task[e].pc = "generate_html"
    /\ LET h == generate_html(task[e].video_id[1], task[e].korean, task[e].summary[1])
           log == Logged(e, "persist", "compute", "html", h # None)
       IN  Local(e, IF h = None THEN [Raised(e, "attribute error") EXCEPT !.log = log]
                    ELSE [task[e] EXCEPT !.pc = "open_html", !.html = h, !.log = log])

\* Line 396.
OpenHtml(e) ==
    /\ task[e].pc = "open_html"
    /\ html_files' = OpenForWriting(html_files, task[e].video_id[1])
    /\ task' = [task EXCEPT ![e].pc = "write_html",
                            ![e].log = Logged(e, "persist", "write", "html", TRUE)]
    /\ response' = NoResponse
    /\ UNCHANGED <<jobs, json_files, api_key, clock, returned, cli>>

\* Line 397 and the close of the with block.
WriteHtml(e) ==
    /\ task[e].pc = "write_html"
    /\ html_files' = [html_files EXCEPT ![task[e].video_id[1]] = task[e].html]
    /\ task' = [task EXCEPT ![e].pc = "set_completed"]
    /\ response' = NoResponse
    /\ UNCHANGED <<jobs, json_files, api_key, clock, returned, cli>>

\* Line 399.
SetCompleted(e) ==
    /\ task[e].pc = "set_completed"
    /\ WriteJob(e, "status", "completed", "set_result")

\* Line 400.
SetResult(e) ==
    /\ task[e].pc = "set_result"
    /\ WriteJob(e, "result", task[e].result, "set_html_path")

\* Line 401; the function returns.
SetHtmlPath(e) ==
    /\ task[e].pc = "set_html_path"
    /\ jobs' = SetField(task[e].job_id, "html_path", Some(task[e].video_id[1]))
    /\ task' = [task EXCEPT ![e] = Ended(e)]
    /\ response' = NoResponse
    /\ UNCHANGED <<json_files, html_files, api_key, clock, returned, cli>>

\* Faulty variant, for contrast: the except clause records the error and leaves the status.
StatusOnError_Stuck == "processing"

\* The status the except clause stores.
StatusOnError == "failed"

\* Line 404.
ExceptStatus(e) ==
    /\ task[e].pc = "except_status"
    /\ WriteJob(e, "status", StatusOnError, "except_error")

\* Line 405; the function returns.
ExceptError(e) ==
    /\ task[e].pc = "except_error"
    /\ jobs' = SetField(task[e].job_id, "error", Some(task[e].err))
    /\ task' = [task EXCEPT ![e] = Ended(e)]
    /\ response' = NoResponse
    /\ UNCHANGED <<json_files, html_files, api_key, clock, returned, cli>>

\* One step of the background execution in slot e.
process_video(e) ==
    \/ SetProcessing(e)
    \/ CheckApiKey(e)
    \/ ExtractVideoId(e)
    \/ SetVideoId(e)
    \/ SetStepTranscript(e)
    \/ FetchPreferred(e)
    \/ FetchDefault(e)
    \/ SetStepTranslate(e)
    \/ Translate(e)
    \/ SetStepSummarize(e)
    \/ Summarize(e)
    \/ SetStepSave(e)
    \/ AssembleResult(e)
    \/ OpenJson(e)
    \/ DumpJson(e)
    \/ GenerateHtml(e)
    \/ OpenHtml(e)
    \/ WriteHtml(e)
    \/ SetCompleted(e)
    \/ SetResult(e)
    \/ SetHtmlPath(e)
    \/ ExceptStatus(e)
    \/ ExceptError(e)

\* ------------------------------------------------------ the read handlers
\* A handler answers and changes nothing.
Answer(r) ==
    /\ response' = r
    /\ UNCHANGED <<jobs, task, json_files, html_files, api_key, clock, returned, cli>>

\* Faulty variant, for contrast: a record is only shown once its execution has started.
StatusResponse_NotYet(job_id) ==
    IF job_id \notin DOMAIN jobs \/ jobs[job_id].status = "pending"
    THEN Response("get_status", job_id, 404, <<>>)
    ELSE Response("get_status", job_id, 200, <<jobs[job_id]>>)

\* What get_status answers in the current state.
StatusResponse(job_id) ==
    IF job_id \notin DOMAIN jobs
    THEN Response("get_status", job_id, 404, <<>>)
    ELSE Response("get_status", job_id, 200, <<jobs[job_id]>>)

\* GET /api/status/{job_id}
get_status(job_id) == Answer(StatusResponse(job_id))

\* What get_result answers: 404 without the file, 500 when json.load raises.
ResultResponse(video_id) ==
    IF video_id \notin DOMAIN json_files
    THEN Response("get_result", video_id, 404, <<>>)
    ELSE LET data == json_load(json_files[video_id])
         IN  IF data = None THEN Response("get_result", video_id, 500, <<>>)
             ELSE Response("get_result", video_id, 200, data)

\* GET /api/result/{video_id}
get_result(video_id) == Answer(ResultResponse(video_id))

\* What view_result answers.
ViewResponse(video_id) ==
    IF video_id \notin DOMAIN html_files
    THEN Response("view_result", video_id, 404, <<>>)
    ELSE Response("view_result", video_id, 200, html_files[video_id])

\* GET /view/{video_id}
view_result(video_id) == Answer(ViewResponse(video_id))

\* The orders in which glob can yield the names of a set of files.
Orders(names) ==
    {o \in [1..Cardinality(names) -> names] :
        \A i, j \in 1..Cardinality(names) : i # j => o[i] # o[j]}

\* The loop of list_results over the files in the order o: the projections
\* appended so far, or None once json.load or a .get has raised.
RECURSIVE Collect(_, _)
Collect(o, n) ==
    IF n = 0 THEN Some(<<>>)
    ELSE LET before == Collect(o, n - 1)
             data == json_load(json_files[o[n]])
         IN  IF before = None \/ data = None THEN None
             ELSE IF Projection(data[1]) = None THEN None
             ELSE Some(Append(before[1], Projection(data[1])[1]))

\* What list_results answers when glob yields the files in the order o.
ListResponse(o) ==
    LET results == Collect(o, Len(o))
    IN  IF results = None THEN Response("list_results", <<>>, 500, <<>>)
        ELSE Response("list_results", <<>>, 200, SortedDesc(results[1]))

\* GET /api/list
list_results == \E o \in Orders(DOMAIN json_files) : Answer(ListResponse(o))

\* ----------------------------------------------------------- agent.py main
\* A step of the one-shot command that leaves the store alone.
CliLocal(c) ==
    /\ cli' = c
    /\ response' = NoResponse
    /\ UNCHANGED <<jobs, task, json_files, html_files, api_key, clock, returned>>

\* sys.exit(code).  saved tells whether save_result had returned in this run;
\* the identifier, the Result and the log of the run are kept as its history.
Exited(code) ==
    [IdleCli EXCEPT !.pc = "exited", !.runs = cli.runs, !.saved = cli.saved,
                    !.video_id = cli.video_id, !.result = cli.result,
                    !.log = cli.log, !.exit = Some(code)]

\* The exit code of the except clause, lines 189-191.
ExitOnError == 1

\* The log of the run with one more event.
CliLogged(stage, act, arg, ok) == Append(cli.log, Event(stage, act, arg, ok))

\* Lines 151-161: the command is started with url; key tells whether
\* ANTHROPIC_API_KEY is set in its environment.
CliStart(url, key) ==
    /\ cli.pc \in {"idle", "exited"}
    /\ cli.runs < MaxRuns
    /\ CliLocal(IF key
                THEN [IdleCli EXCEPT !.pc = "extract", !.runs = cli.runs + 1, !.url = url]
                ELSE [IdleCli EXCEPT !.pc = "exited", !.runs = cli.runs + 1,
                                     !.exit = Some(1)])

\* Line 165.
CliExtractVideoId ==
    /\ cli.pc = "extract"
    /\ LET v == extract_video_id(cli.url)
           log == CliLogged("extract", "compute", "", v # None)
       IN  CliLocal(IF v = None THEN [Exited(ExitOnError) EXCEPT !.log = log]
                    ELSE [cli EXCEPT !.pc = "fetch", !.video_id = v, !.log = log])

\* Line 40.
CliFetchPreferred ==
    /\ cli.pc = "fetch"
    /\ \E ok \in {FALSE, HasPreferredTranscript(cli.video_id[1])} :
        LET log == CliLogged("transcript", "call", "languages", ok)
        IN  CliLocal(IF ok THEN [cli EXCEPT !.pc = "translate",
                                            !.original = Join(PreferredFragments),
                                            !.log = log]
                     ELSE [cli EXCEPT !.pc = "fetch_default", !.log = log])

\* Line 42.
CliFetchDefault ==
    /\ cli.pc = "fetch_default"
    /\ \E ok \in BOOLEAN :
        LET log == CliLogged("transcript", "call", "default", ok)
        IN  CliLocal(IF ok THEN [cli EXCEPT !.pc = "translate",
                                            !.original =
                                                Join(DefaultTranscript(cli.video_id[1])),
                                            !.log = log]
                     ELSE [Exited(ExitOnError) EXCEPT !.log = log])

\* Line 174.
CliTranslate ==
    /\ cli.pc = "translate"
    /\ \E ok \in BOOLEAN :
        LET log == CliLogged("translate", "call", "translate", ok)
        IN  CliLocal(IF ok THEN [cli EXCEPT !.pc = "summarize",
                                            !.korean = Translated(cli.original),
                                            !.log = log]
                     ELSE [Exited(ExitOnError) EXCEPT !.log = log])

\* Line 177.
CliSummarize ==
    /\ cli.pc = "summarize"
    /\ \/ CliLocal([Exited(ExitOnError) EXCEPT
                         !.log = CliLogged("summarize", "call", "summarize", FALSE)])
       \/ \E text \in SummaryReplies :
            LET s == ParseSummary(text)
                log == CliLogged("summarize", "call", "summarize", s # None)
            IN  CliLocal(IF s = None THEN [Exited(ExitOnError) EXCEPT !.log = log]
                         ELSE [cli EXCEPT !.pc = "assemble", !.summary = s, !.log = log])

\* save_result, lines 131-140.
CliAssembleResult ==
    /\ cli.pc = "assemble"
    /\ LET t == Now IN
        /\ clock' = t
        /\ cli' = [cli EXCEPT !.pc = "open_json",
                              !.result = Some(Result(cli.video_id[1], cli.original,
                                                     cli.korean, cli.summary[1],
                                                     isoformat(t)))]
    /\ response' = NoResponse
    /\ UNCHANGED <<jobs, task, json_files, html_files, api_key, returned>>

\* save_result, line 143.
CliOpenJson ==
    /\ cli.pc = "open_json"
    /\ json_files' = OpenForWriting(json_files, cli.video_id[1])
    /\ cli' = [cli EXCEPT !.pc = "dump", !.off = 0,
                          !.log = CliLogged("persist", "write", "json", TRUE),
                          !.before = IF cli.video_id[1] \in DOMAIN json_files
                                     THEN json_files[cli.video_id[1]] ELSE <<>>]
    /\ response' = NoResponse
    /\ UNCHANGED <<jobs, task, html_files, api_key, clock, returned>>

\* save_result, line 144 to its return.
CliDumpJson ==
    /\ cli.pc = "dump"
    /\ LET text == json_dump(cli.result[1])
           name == cli.video_id[1]
           n == Len(NextPiece(text, cli.off))
       IN   /\ json_files' = [json_files EXCEPT ![name] =
                                 WriteAt(@, cli.off, NextPiece(text, cli.off))]
            /\ cli' = IF cli.off + n = Len(text)
                      THEN [cli EXCEPT !.off = @ + n, !.pc = "report", !.saved = TRUE]
                      ELSE [cli EXCEPT !.off = @ + n]
    /\ response' = NoResponse
    /\ UNCHANGED <<jobs, task, html_files, api_key, clock, returned>>

\* Lines 182-187 print the completion summary; summary.get raises on a
\* summary that is no dict, and the except clause exits with 1.  Falling off
\* the end of main is exit code 0.
CliReport ==
    /\ cli.pc = "report"
    /\ CliLocal(IF cli.summary[1].kind = "dict" THEN Exited(0) ELSE Exited(ExitOnError))

VidC == <<"Z","z","9","_","-","k","K","3","q","Q","0">>

\* The inputs of the one-shot command: those of the service, a bare
\* identifier and a watch URL.
CliUrls ==
    Urls \cup {VidA, <<"w","a","t","c","h","?","v","=">> \o VidC \o <<"&","t","=","1","s">>}
CliVideoIds == VideoIds \cup {VidC}

main ==
    \/ \E url \in CliUrls, key \in BOOLEAN : CliStart(url, key)
    \/ CliExtractVideoId
    \/ CliFetchPreferred
    \/ CliFetchDefault
    \/ CliTranslate
    \/ CliSummarize
    \/ CliAssembleResult
    \/ CliOpenJson
    \/ CliDumpJson
    \/ CliReport

\* ------------------------------------------------------------ specification
Handlers ==
    \/ \E url \in Urls, job_id \in JobIds : start_translation(url, job_id)
    \/ \E job_id \in JobIds : get_status(job_id)
    \/ \E video_id \in VideoIds : get_result(video_id)
    \/ \E video_id \in VideoIds : view_result(video_id)
    \/ list_results

Next ==
    \/ Handlers
    \/ \E e \in Slots : process_video(e)

\* The service alone.
Spec == Init /\ [][Next]_vars

\* The one-shot command, run again and again, and the store handlers of a
\* service over the same output directory.
CliNext ==
    \/ main
    \/ \E video_id \in CliVideoIds : get_result(video_id)
    \/ \E video_id \in CliVideoIds : view_result(video_id)
    \/ list_results

CliSpec == Init /\ [][CliNext]_vars

\* Each background execution is a task of the worker pool: once scheduled it
\* is run, and each call it makes returns or fails.
\* The read handlers change nothing but the response and are left out here.
Submitted ==
    \/ \E url \in Urls, job_id \in JobIds : start_translation(url, job_id)
    \/ \E e \in Slots : process_video(e)

FairSpec == Init /\ [][Submitted]_vars /\ \A e \in Slots : WF_vars(process_video(e))

\* One job of the service and one run of the command, side by side.
SubmitOnce(url, job_id) == jobs = Empty /\ start_translation(url, job_id)
RunOnce == cli.pc # "exited" /\ main

PipelineNext ==
    \/ \E url \in Urls, job_id \in JobIds : SubmitOnce(url, job_id)
    \/ \E e \in Slots : process_video(e)
    \/ RunOnce

PipelineSpec == Init /\ [][PipelineNext]_vars

\* ---------------------------------------------------------- extract_video_id
\* The strings a caller can hand to extract_video_id: an optional leading
\* blank, a prefix, a run of characters and what follows it.
InputLeads == {<<>>, <<" ">>}
InputHeads ==
    {<<>>, <<"v","=">>, <<"/","v","/">>,
     <<"h","t","t","p","s",":","/","/","y","o","u","t","u",".","b","e","/">>,
     <<"i","d","=">>}
InputBodies ==
    {VidA, VidB, SubSeq(VidA, 1, TokenLen - 1), VidA \o <<"x">>,
     <<"!">> \o SubSeq(VidB, 2, TokenLen)}
InputTails == {<<>>, <<" ">>, <<"\n">>, <<"&","t","=","1">>}
ExtractInputs ==
    {a \o b \o c \o d : a \in InputLeads, b \in InputHeads, c \in InputBodies,
                        d \in InputTails}

\* A call of extract_video_id(url) on its own; body is None where it raises
\* ValueError.
ExtractCall(url) ==
    Answer(Response("extract_video_id", url, 0, extract_video_id(url)))

ExtractNext == \E url \in ExtractInputs : ExtractCall(url)

ExtractSpec == Init /\ [][ExtractNext]_vars

\* ------------------------------------------------------------------ summarize
\* The pieces a reply of the model service is made of, and the replies.
ReplyPieces ==
    {FenceJson, Fence, Newline, JsonText(SummaryFull), JsonText(SummaryBrief),
     JsonText(JsonArray), Prose}
Replies == UNION {[1..n -> ReplyPieces] : n \in 0..MaxPieces}

\* The model service has answered a summary request with some text.
SummarizeInit ==
    /\ jobs = Empty
    /\ task = [e \in Slots |-> IdleTask]
    /\ json_files = Empty
    /\ html_files = Empty
    /\ api_key \in BOOLEAN
    /\ clock = 0
    /\ response \in {Response("messages.create", text, 0, <<>>) : text \in Replies}
    /\ returned = {}
    /\ cli = IdleCli

\* Lines 113-115 of summarize on that text; body is None where json.loads
\* raises.
SummarizeCall ==
    /\ response.op = "messages.create"
    /\ Answer(Response("summarize", response.arg, 0, ParseSummary(response.arg)))

SummarizeSpec == SummarizeInit /\ [][SummarizeCall]_vars

\* ================================================================== claims
Terminal == {"completed", "failed"}
IsTerminal(job_id) == job_id \in DOMAIN jobs /\ jobs[job_id].status \in Terminal

\* Slot e takes a step of process_video.
Stepped(e) == task[e].pc \notin {"idle", "done"} /\ task'[e] # task[e]

\* The step is a write of a terminal status by slot e (line 399 or 404).
TerminalWrite(e) == Stepped(e) /\ task[e].pc \in {"set_completed", "except_status"}

\* C1: the status of every job record only moves pending -> processing ->
\* completed or failed, never back and never out of completed or failed, and
\* a terminal status is written at most once per job (given the first part,
\* never onto a record that is already terminal).
C1_StatusMonotonic ==
    [][/\ \A j \in DOMAIN jobs :
            jobs'[j].status # jobs[j].status =>
                <<jobs[j].status, jobs'[j].status>> \in
                    {<<"pending", "processing">>, <<"processing", "completed">>,
                     <<"processing", "failed">>}
       /\ \A e \in Slots :
            TerminalWrite(e) => jobs[task[e].job_id].status \notin Terminal
      ]_vars

\* C2: whatever a poll returns, a completed record carries a result and no
\* error, a failed record an error and no result, a pending or processing
\* record neither.
C2_PollConsistent ==
    (response.op = "get_status" /\ response.code = 200) =>
        LET r == response.body[1]
        IN  /\ r.status = "completed" => (r.result # None /\ r.error = None)
            /\ r.status = "failed" => (r.error # None /\ r.result = None)
            /\ r.status \in {"pending", "processing"} =>
                    (r.result = None /\ r.error = None)

\* C3: every job Submit accepted eventually has status completed or failed.
C3_EventuallyTerminal ==
    \A j \in JobIds : (j \in DOMAIN jobs /\ ~IsTerminal(j)) ~> IsTerminal(j)

C3_Witness ==
    \E j, k \in DOMAIN jobs : jobs[j].status = "completed" /\ jobs[k].status = "failed"

\* C4: a step of the background execution of one job leaves the record of
\* every other job as it was, and once a job has failed every other job
\* still reaches its own terminal status.
C4_OtherJobsUntouched ==
    /\ [][\A e \in Slots : Stepped(e) =>
            \A k \in DOMAIN jobs : k # task[e].job_id => jobs'[k] = jobs[k]]_vars
    /\ \A j, k \in JobIds :
            (j # k /\ j \in DOMAIN jobs /\ jobs[j].status = "failed"
                   /\ k \in DOMAIN jobs /\ ~IsTerminal(k)) ~> IsTerminal(k)

C4_Witness ==
    \E j, k \in DOMAIN jobs :
        /\ j # k
        /\ jobs[j].status = "failed" /\ jobs[j].error # None
        /\ jobs[k].status = "completed" /\ jobs[k].result # None

\* C10: get_status answers 404 exactly for the identifiers Submit has never
\* returned and the stored record for the others, at any later point (no
\* record ever leaves the registry), and it changes no record.
C10_GetStatus ==
    [][/\ DOMAIN jobs \subseteq DOMAIN jobs'
       /\ returned' = DOMAIN jobs'
       /\ response'.op = "get_status" =>
            /\ jobs' = jobs
            /\ response'.code = 404 <=> response'.arg \notin returned'
            /\ response'.code # 404 =>
                    (response'.code = 200 /\ response'.body = <<jobs[response'.arg]>>)
      ]_vars

C10_Witness ==
    /\ response.op = "get_status"
    /\ response.code = 200
    /\ response.body[1].status = "completed"
    /\ \E j \in JobIds : j \notin returned

\* C5: a Load after a Save answers the Result that was saved, field for
\* field, also when the Save replaced an earlier document of the identifier;
\* and a document is only ever stored under its own identifier, so the store
\* holds at most one per identifier.
C5_SaveThenLoad ==
    /\ (response.op = "get_result" /\ cli.saved /\ response.arg = cli.video_id[1]) =>
            (response.code = 200 /\ response.body = cli.result)
    /\ \A name \in DOMAIN json_files :
            LET data == json_load(json_files[name])
            IN  data # None => data[1].video_id = name

\* A Load after a Save that replaced a longer document.
C5_Witness ==
    /\ response.op = "get_result"
    /\ cli.saved
    /\ response.arg = cli.video_id[1]
    /\ response.code = 200
    /\ Len(cli.before) > Len(json_files[cli.video_id[1]])

\* No save is under way: save_result has not opened a file it has yet to
\* close, and no execution is between lines 390 and 397 of server.py.
NoSaveInProgress ==
    /\ cli.pc # "dump"
    /\ \A e \in Slots :
            task[e].pc \notin {"dump", "generate_html", "open_html", "write_html"}

\* C6: with no save in progress, fetch-result and fetch-report of an
\* identifier are both found or both not found.
C6_JsonIffReport ==
    NoSaveInProgress =>
        \A v \in CliVideoIds :
            ResultResponse(v).code = 404 <=> ViewResponse(v).code = 404

\* The video identifiers of the documents in the store that json.load parses.
WellFormed == {v \in DOMAIN json_files : json_load(json_files[v]) # None}

\* C7: list_results never fails: it answers the projections of exactly the
\* well-formed documents and skips the others.
C7_ListSkipsMalformed ==
    response.op = "list_results" =>
        /\ response.code = 200
        /\ {response.body[i].video_id : i \in 1..Len(response.body)} = WellFormed

\* The clock reading a timestamp was rendered from.
TimeOf(stamp) == CHOOSE t \in 0..MaxClock : isoformat(t) = stamp

C9_ExitCode ==
    cli.pc = "exited" => (cli.exit = Some(0) <=> cli.saved)


\* str.strip(): the string without the whitespace at its two ends.
Whitespace == {" ", "\n", "\t"}
RECURSIVE TrimLeft(_)
TrimLeft(s) == IF Len(s) > 0 /\ s[1] \in Whitespace THEN TrimLeft(Tail(s)) ELSE s
RECURSIVE TrimRight(_)
TrimRight(s) ==
    IF Len(s) > 0 /\ s[Len(s)] \in Whitespace
    THEN TrimRight(SubSeq(s, 1, Len(s) - 1)) ELSE s
Trimmed(s) == TrimRight(TrimLeft(s))

\* s is an 11-character token of the allowed characters.
IsToken(s) == Len(s) = TokenLen /\ \A i \in 1..Len(s) : s[i] \in AllowedChars

\* C11: extraction answers the token after the URL prefix where the input
\* holds one; otherwise, where the trimmed input is a token, that token
\* (blanks around a valid token are accepted); and it fails for every other
\* input.
C11_ExtractionRules ==
    response.op = "extract_video_id" =>
        LET s == response.arg
        IN  IF UrlPatternMatches(s)
            THEN /\ response.body = Some(UrlPatternGroup(s))
                 /\ IsToken(response.body[1])
            ELSE IF IsToken(Trimmed(s)) THEN response.body = Some(Trimmed(s))
            ELSE response.body = None


\* The stages of a run, in the order of the pipeline.
StageOrder == <<"extract", "transcript", "translate", "summarize", "persist">>
StageIndex(stage) == CHOOSE i \in 1..Len(StageOrder) : StageOrder[i] = stage

\* The events of a log follow the pipeline: stages appear in the fixed order;
\* when an event of a stage happens, every earlier stage has happened and its
\* last event returned; and the only event that follows one that raised is
\* the second call of the transcript stage.
InOrder(log) ==
    /\ \A i, j \in 1..Len(log) :
            i < j => StageIndex(log[i].stage) <= StageIndex(log[j].stage)
    /\ \A j \in 1..Len(log) :
            \A k \in 1..(StageIndex(log[j].stage) - 1) :
                \E i \in 1..(j - 1) :
                    /\ log[i].stage = StageOrder[k]
                    /\ log[i].ok
                    /\ \A h \in (i + 1)..(j - 1) : log[h].stage # StageOrder[k]
    /\ \A i \in 1..(Len(log) - 1) :
            ~log[i].ok =>
                /\ log[i].stage = "transcript" /\ log[i].arg = "languages"
                /\ log[i + 1].stage = "transcript" /\ log[i + 1].arg = "default"

\* C12: in every run, of the service and of the command, the stages happen
\* in the order extract, transcript, translate, summarize, persist, each
\* only after all earlier ones succeeded, and after a stage has failed the
\* run makes no further call and writes no file.
C12_StagesInOrder ==
    /\ \A e \in Slots : InOrder(task[e].log)
    /\ InOrder(cli.log)

\* A job that went through all five stages, next to a run of the command that
\* stopped at a failed translation.
C12_Witness ==
    /\ \E e \in Slots :
            /\ task[e].pc = "set_completed"
            /\ {task[e].log[i].stage : i \in 1..Len(task[e].log)} =
                    {StageOrder[k] : k \in 1..Len(StageOrder)}
    /\ cli.pc = "exited"
    /\ Len(cli.log) > 0
    /\ cli.log[Len(cli.log)] = Event("translate", "call", "translate", FALSE)


\* The calls to the transcript service in a log.
IsTranscriptCall(ev) == ev.stage = "transcript" /\ ev.act = "call"
TranscriptCalls(log) == SelectSeq(log, IsTranscriptCall)

\* text is the fragments, in their order, with one blank between neighbours.
IsJoined(text, fragments) ==
    /\ Len(text) = 2 * Len(fragments) - 1
    /\ \A i \in 1..Len(fragments) : text[2 * i - 1] = fragments[i]
    /\ \A i \in 1..(Len(fragments) - 1) : text[2 * i] = " "

\* The fragments the transcript service holds for a video: the English ones
\* where it has them, else those of its default language.
FragmentsOf(video_id) == IF video_id = VidB THEN DefaultFragments ELSE PreferredFragments

\* What C13 asks of one run: its calls so far, the text it holds while its
\* locals are there (live), and whether it has stopped (failed) or waits to
\* make the second call (retrying).
TwoCallsAtMost(log, video_id, original, live, failed, retrying) ==
    LET calls == TranscriptCalls(log)
    IN  /\ Len(calls) <= 2
        /\ Len(calls) >= 1 => calls[1].arg = "languages"
        /\ Len(calls) = 2 => (~calls[1].ok /\ calls[2].arg = "default")
        /\ (Len(calls) = 1 /\ ~calls[1].ok) => retrying
        /\ (live /\ Len(calls) >= 1 /\ calls[Len(calls)].ok) =>
                IsJoined(original, FragmentsOf(video_id[1]))
        /\ (Len(calls) = 2 /\ ~calls[2].ok) => (failed /\ original = <<>>)

\* C13: a run calls the transcript service at most twice, first with the
\* language list and a second time, without it, only after the first call
\* failed; the text it goes on with is the joined fragments of the call that
\* succeeded; after two failed calls the run has failed and calls no more.
C13_TranscriptCalls ==
    /\ \A e \in Slots :
            TwoCallsAtMost(task[e].log, task[e].video_id, task[e].original, TRUE,
                           task[e].pc \in {"except_status", "except_error"},
                           task[e].pc = "fetch_default")
    /\ TwoCallsAtMost(cli.log, cli.video_id, cli.original, cli.pc # "exited",
                      cli.pc = "exited" /\ cli.exit = Some(ExitOnError) /\ ~cli.saved,
                      cli.pc = "fetch_default")

\* A job that got its transcript from the second call, next to a run of the
\* command whose two calls both failed.
C13_Witness ==
    /\ \E e \in Slots :
            /\ Len(TranscriptCalls(task[e].log)) = 2
            /\ TranscriptCalls(task[e].log)[2].ok
            /\ task[e].original = <<"Hola", " ", "mundo">>
    /\ cli.pc = "exited"
    /\ Len(TranscriptCalls(cli.log)) = 2
    /\ ~TranscriptCalls(cli.log)[2].ok


\* The log holds a write to the named file of the output directory.
HasWritten(log, file) ==
    \E i \in 1..Len(log) : log[i].act = "write" /\ log[i].arg = file

\* C14: an execution that has set its job to failed has written neither the
\* JSON document nor the report during its run, and one that has set its job
\* to completed has written both.
C14_StoreChangedIffCompleted ==
    \A e \in Slots :
        /\ task[e].pc = "except_error" =>
                (~HasWritten(task[e].log, "json") /\ ~HasWritten(task[e].log, "html"))
        /\ task[e].pc \in {"set_result", "set_html_path"} =>
                (HasWritten(task[e].log, "json") /\ HasWritten(task[e].log, "html"))


\* C15: summarize returns a JSON object or fails; a reply that is not valid
\* JSON, or is a JSON value of another type, makes it fail.
C15_SummaryIsRecord ==
    response.op = "summarize" =>
        (response.body = None \/ response.body[1].kind = "dict")

\* The reply is one JSON text inside a pair of fence markers, the opening one
\* with or without the language tag, with any whitespace around the text.
IsFenced(text) ==
    /\ Len(text) >= 3
    /\ text[1].t \in {"fence_json", "fence"}
    /\ text[Len(text)].t = "fence"
    /\ \E i \in 2..(Len(text) - 1) :
            /\ text[i].t = "json"
            /\ \A k \in 2..(Len(text) - 1) : k # i => text[k].t = "ws"

FencedPayload(text) == text[CHOOSE i \in 2..(Len(text) - 1) : text[i].t = "json"]

\* C16: summarize on a payload inside fence markers, with or without a
\* language tag, returns what it returns on the bare payload.
C16_FencesTransparent ==
    (response.op = "summarize" /\ IsFenced(response.arg)) =>
        response.body = ParseSummary(<<FencedPayload(response.arg)>>)


\* The label the record shows while a stage of its job runs.  The source has
\* no label for the extraction stage; any text other than the submission-time
\* label and the labels of the other stages would count as one.
ShowsStage(pc, step) ==
    /\ pc = "extract" =>
            step \notin {StepWaiting, StepTranscript, StepTranslate, StepSummarize, StepSave}
    /\ pc \in {"fetch", "fetch_default"} => step = StepTranscript
    /\ pc = "translate" => step = StepTranslate
    /\ pc = "summarize" => step = StepSummarize
    /\ pc \in {"assemble", "open_json", "dump", "generate_html", "open_html", "write_html"} =>
            step = StepSave

\* C17: while a stage of a job runs (extraction, transcript fetch,
\* translation, summarization, persistence), the step label of the job's
\* record is the label of that stage.
C17_LabelPerStage ==
    \A e \in Slots :
        task[e].pc \notin {"idle", "done"} =>
            ShowsStage(task[e].pc, jobs[task[e].job_id].step)


\* C18: once two jobs for one video identifier have both run to completed,
\* the JSON document and the report stored for the identifier come from one
\* Result, that of one of the two jobs: the document parses to it and the
\* report is the page generated from it.
C18_SameResultInBoth ==
    \A j, k \in DOMAIN jobs :
        (/\ j # k
         /\ \A e \in Slots : task[e].pc = "done"
         /\ jobs[j].status = "completed" /\ jobs[j].result # None
         /\ jobs[k].status = "completed" /\ jobs[k].result # None
         /\ jobs[j].video_id = jobs[k].video_id) =>
            LET v == jobs[j].video_id[1]
                data == json_load(json_files[v])
            IN  /\ data \in {jobs[j].result, jobs[k].result}
                /\ html_files[v] =
                        generate_html(v, data[1].korean_transcript, data[1].summary)


\* C19: start_translation stores its pending record under an identifier that
\* is not yet a key of the registry, so no Submit replaces the record of an
\* existing job.
C19_SubmitUsesFreshId ==
    [][\A e \in Slots :
            (task[e].pc = "idle" /\ task'[e].pc = "start") =>
                /\ task'[e].job_id \notin DOMAIN jobs
                /\ \A j \in DOMAIN jobs : jobs'[j] = jobs[j]]_vars

\* Extraction has succeeded in the run of slot e and line 361 has stored its
\* outcome.
ExtractionRecorded(e) ==
    /\ \E i \in 1..Len(task[e].log) : task[e].log[i].stage = "extract" /\ task[e].log[i].ok
    /\ task[e].pc # "set_video_id"

\* C20: the video_id of a job record is null until extraction has succeeded
\* for the job and is the extracted identifier from then on; once set it
\* never changes; and a completed record's video_id is the one inside its
\* Result.
C20_VideoIdOfRecord ==
    /\ [](\A e \in Slots :
            task[e].pc \notin {"idle", "done"} =>
                jobs[task[e].job_id].video_id =
                    IF ExtractionRecorded(e) THEN task[e].video_id ELSE None)
    /\ [](\A j \in DOMAIN jobs :
            (jobs[j].status = "completed" /\ jobs[j].result # None) =>
                jobs[j].video_id = Some(jobs[j].result[1].video_id))
    /\ [][\A j \in DOMAIN jobs :
            jobs[j].video_id # None => jobs'[j].video_id = jobs[j].video_id]_vars

====
